---- MODULE Spec2Model ----
(***************************************************************************)
(* Model of subdomain_scanner.py: the SubdomainScanner thread-pool scan,   *)
(* the locked aggregation region of check_subdomain, the output handlers   *)
(* and the try/except structure of main.                                   *)
(***************************************************************************)
EXTENDS Integers, Sequences, FiniteSets, TLC

\* ---------------------------------------------------------------- bounds
MaxCands == 2
MaxThreads == 2
MaxRecords == 2
MaxIps == 2
\* candidates of a long wordlist
MaxChecked == 200

\* ------------------------------------------------------------- constants
BaseDomain == "example.com"

\* labels the wordlist and the network outcomes are drawn from
Labels == {"www", "shop"}

\* the literal list of common_scan
BuiltinList ==
  << "www", "mail", "ftp", "localhost", "webmail", "smtp", "pop", "ns1", "webdisk",
     "ns2", "cpanel", "whm", "autodiscover", "autoconfig", "ns", "test", "admin",
     "blog", "dev", "api", "secure", "vpn", "mobile", "shop", "app", "cdn", "m",
     "email", "portal", "support", "forum", "news", "media", "static", "docs",
     "store", "shop", "db", "sql", "backup", "old", "new", "beta", "staging",
     "mail2", "test", "live", "search", "images", "img", "download", "uploads",
     "video", "music", "demo", "help", "kb", "wiki", "status", "monitor",
     "payment", "billing", "invoice", "secure", "ssl", "cdn", "cloud", "server",
     "serv", "service", "services", "app", "apps", "office", "remote", "share",
     "shared", "sharepoint", "ftp", "file", "files", "doc", "docs", "document",
     "map", "yiyan", "chat", "baijiahao", "ti", "zhidao" >>

InLabels(l) == l \in Labels

\* common_scan iterates its list as written (no set(), no dedup); the model
\* keeps the entries of the list that are in Labels, in list order
common_subdomains == SelectSeq(BuiltinList, InLabels)

\* method chains the --methods option is drawn from
MethodChains == { <<"dns", "http">>, <<"http">>, <<"cert", "dns">> }

\* output file kinds selected by the extension of --output ("" = no -o)
OutputKinds == {"", "json"}

None == <<>>

VARIABLES
  args,             \* [wordlist, file, threads, methods, output]: command line
  net,              \* [dns, https, http]: labels that resolve, response per label
  subdomains,       \* the candidate list handed to the executor
  checked_count,    \* self.checked_count
  found_subdomains, \* self.found_subdomains
  lock,             \* self.lock: 0 when free, else the task holding it
  futures,          \* submitted tasks, futures[i] probes subdomains[i]
  collected,        \* futures the as_completed loop has consumed
  mpc,              \* position of the main thread
  handler,          \* clause of main's try statement: "try", "ki", "exc"
  pending,          \* exception propagating through the with block
  cancelled,        \* whether a KeyboardInterrupt was delivered
  reports,          \* generate_report invocations started
  file,             \* chunks written to the output file
  fileOpen,         \* whether the handler's file object is open
  first_entry,      \* JSONOutput.first_entry
  clock,            \* datetime.now(), a logical time
  written           \* arguments of the handler.write calls that returned, in order

vars == << args, net, subdomains, checked_count, found_subdomains, lock,
           futures, collected, mpc, handler, pending, cancelled, reports,
           file, fileOpen, first_entry, clock, written >>

\* ------------------------------------------------------- discovery methods
FullDomain(subdomain) == subdomain \o "." \o BaseDomain

\* dns_scan with the resolver's exception swallowed into an empty answer
dns_scan_empty_answer(subdomain) ==
  IF subdomain \in net.dns
    THEN << FullDomain(subdomain), <<"192.0.2.1">>, "DNS" >>
    ELSE << FullDomain(subdomain), <<>>, "DNS" >>

dns_scan(subdomain) ==
  IF subdomain \in net.dns
    THEN << FullDomain(subdomain), <<"192.0.2.1">>, "DNS" >>
    ELSE None

Url(protocol, subdomain) == protocol \o "://" \o FullDomain(subdomain)

\* what requests.get does for a url: it raises, or returns a response with
\* a status code
Raises == [exc |-> TRUE, status_code |-> 0]
Response(code) == [exc |-> FALSE, status_code |-> code]

\* any response counts, whatever its status
AnyResponse(response) == ~response.exc

\* lines 81-90: the request returned and response.status_code < 400
Reachable(response) == ~response.exc /\ response.status_code < 400

\* the for loop of http_scan over the rest of ['https', 'http']: the value
\* returned and the urls requested
RECURSIVE HttpLoop(_, _, _)
HttpLoop(subdomain, protocols, requests) ==
  IF protocols = <<>> THEN [result |-> None, requests |-> requests]
  ELSE LET url == Url(Head(protocols), subdomain)
           requested == Append(requests, url)
       IN IF Reachable(net[Head(protocols)][subdomain])
            THEN [result |-> << FullDomain(subdomain), << url >>, "HTTP" >>,
                  requests |-> requested]
            ELSE HttpLoop(subdomain, Tail(protocols), requested)

http_scan(subdomain) == HttpLoop(subdomain, <<"https", "http">>, <<>>).result

\* the urls a call of the method requests
Requests(method, subdomain) ==
  IF method = "http"
    THEN HttpLoop(subdomain, <<"https", "http">>, <<>>).requests
    ELSE <<>>

certificate_scan(subdomain) == None

CallMethod(method, subdomain) ==
  IF method = "dns" THEN dns_scan(subdomain)
  ELSE IF method = "http" THEN http_scan(subdomain)
  ELSE certificate_scan(subdomain)

\* the method loop without its break
NoBreak(result) == FALSE

ShortCircuit(result) == result # None

\* the for loop of check_subdomain: returns the result and the methods called
RECURSIVE MethodLoop(_, _, _)
MethodLoop(subdomain, ms, calls) ==
  IF ms = <<>> THEN [result |-> None, calls |-> calls, requests |-> <<>>]
  ELSE LET result == CallMethod(Head(ms), subdomain)
           called == Append(calls, Head(ms))
           here == [result |-> result, calls |-> called,
                    requests |-> Requests(Head(ms), subdomain)]
       IN IF ShortCircuit(result)
            THEN here
            ELSE IF Tail(ms) = <<>>
                   THEN here
                   ELSE LET rest == MethodLoop(subdomain, Tail(ms), called)
                        IN [rest EXCEPT !.requests = here.requests \o @]

\* ---------------------------------------------------------- output handlers
\* a file is a sequence of chunks [t, v]: t is the punctuation or "str"/"line"
P(t) == [t |-> t, v |-> ""]
Str(s) == [t |-> "str", v |-> s]
Line(s) == [t |-> "line", v |-> s]

\* datetime.now().isoformat() for logical time n
Iso(n) == << "T0", "T1", "T2", "T3", "T4", "T5", "T6", "T7", "T8", "T9" >>[n + 1]

RECURSIVE Join(_, _)
Join(sep, strs) ==
  IF strs = <<>> THEN ""
  ELSE IF Len(strs) = 1 THEN strs[1]
  ELSE strs[1] \o sep \o Join(sep, Tail(strs))

\* json.dumps of a list of strings
RECURSIVE DumpsItems(_)
DumpsItems(strs) ==
  IF strs = <<>> THEN <<>>
  ELSE IF Len(strs) = 1 THEN << Str(strs[1]) >>
  ELSE << Str(strs[1]), P(",") >> \o DumpsItems(Tail(strs))

DumpsList(strs) == << P("[") >> \o DumpsItems(strs) \o << P("]") >>

\* json.dumps of the dict built by JSONOutput.write
DumpsEntry(domain, ips, method, now) ==
  << P("{"), Str("domain"), P(":"), Str(domain), P(","),
     Str("ips"), P(":") >> \o DumpsList(ips) \o
  << P(","), Str("method"), P(":"), Str(method), P(","),
     Str("discovery_time"), P(":"), Str(now), P("}") >>

JSONHeader(now) ==
  << P("{"), Str("scan_info"), P(":"), P("{"), Str("start_time"), P(":"),
     Str(now), P(","), Str("subdomains"), P(":"), P("[") >>

\* a separator written before every entry, the first included
AlwaysSeparator(first) == << P(",") >>

EntrySeparator(first) == IF first THEN <<>> ELSE << P(",") >>

JSONWrite(first, domain, ips, method, now) ==
  EntrySeparator(first) \o DumpsEntry(domain, ips, method, now)

JSONClose == << P("]"), P("}") >>

\* the banner lines of TextOutput, their Chinese labels written in ASCII
TextHeader(now) ==
  << Line("# report"), Line("# target: "),
     Line("# time: " \o now), Line("# ") >>

TextWrite(domain) == << Line(domain) >>

CSVHeader == << Line("domain,ips,method,discovery_time") >>

Quote(s) == "\"" \o s \o "\""

CSVWrite(domain, ips, method, now) ==
  << Line(Join(",", << Quote(domain), Quote(Join(";", ips)),
                       Quote(method), Quote(now) >>)) >>

\* OutputHandler.__init__ -> write_header, by the class __init__ selected
write_header(kind, now) ==
  IF kind = "json" THEN JSONHeader(now)
  ELSE IF kind = "csv" THEN CSVHeader
  ELSE IF kind = "text" THEN TextHeader(now)
  ELSE <<>>

\* handler.write(domain, ips, method) of the handler's class
HandlerWrite(kind, first, domain, ips, method, now) ==
  IF kind = "json" THEN JSONWrite(first, domain, ips, method, now)
  ELSE IF kind = "csv" THEN CSVWrite(domain, ips, method, now)
  ELSE TextWrite(domain)

\* self.output_handlers has one handler when -o was given, none otherwise
HasHandler == args.output # ""

\* ------------------------------------------------------------ wordlist file
\* lines of a wordlist file: labels, a blank line, a comment, a padded label
Lines == Labels \cup {"", "#c", " www "}

strip(line) == IF line = " www " THEN "www" ELSE line

IsComment(subdomain) == subdomain = "#c"

WordFiles == UNION { [1..n -> Lines] : n \in 0..MaxCands }

Missing == << "FileNotFoundError" >>

\* a blank line is taken as a label
KeepBlank(line) == ~IsComment(strip(line))

Keep(line) == strip(line) # "" /\ ~IsComment(strip(line))

\* the set built by load_subdomains_from_file; a missing file gives []
load_subdomains_from_file(f) ==
  IF f = Missing THEN {}
  ELSE { strip(f[i]) : i \in { j \in 1..Len(f) : Keep(f[j]) } }

\* list(subdomains): the elements of the set in some order
ListsOf(S) ==
  { q \in [1..Cardinality(S) -> S] : \A i, j \in 1..Cardinality(S) : q[i] = q[j] => i = j }

\* ------------------------------------------------------------------- state
Elems(q) == { q[i] : i \in 1..Len(q) }

\* the outcome of every network call, fixed for the run. Outcomes no call
\* reads are left at "fails": http:// is only requested for a label whose
\* https:// request failed, and no request is made by a chain without http
Networks(ms) ==
  { n \in [dns : SUBSET Labels,
           https : [Labels -> { Raises, Response(200) }],
           http : [Labels -> { Raises, Response(200) }]] :
      /\ \A l \in Labels : Reachable(n.https[l]) => n.http[l] = Raises
      /\ "http" \notin Elems(ms) =>
           \A l \in Labels : n.https[l] = Raises /\ n.http[l] = Raises
      /\ "dns" \notin Elems(ms) => n.dns = {} }

Tasks == DOMAIN futures

NewFuture ==
  [pc |-> "queued", result |-> None, calls |-> <<>>, tmp |-> 0, exc |-> "",
   notes |-> <<>>, wrote |-> 0, requests |-> <<>>]

Running(t) == futures[t].pc \notin {"queued", "done"}

Executing == { t \in Tasks : Running(t) }

\* the files of the main specification: a missing file and files of
\* distinct labels, one per line (the order of the lines is lost in the
\* set, so one order is enough)
PlainFiles == { Missing, << "www" >>, << "shop" >>, << "www", "shop" >> }

\* args.wordlist tells whether -w was given, args.file is the content of
\* the file it names
Init ==
  /\ args \in [wordlist : BOOLEAN, file : PlainFiles, threads : 0..MaxThreads,
               methods : MethodChains, output : OutputKinds]
  /\ ~args.wordlist => args.file = Missing
  /\ net \in Networks(args.methods)
  /\ subdomains = <<>>
  /\ checked_count = 0
  /\ found_subdomains = {}
  /\ lock = 0
  /\ futures = <<>>
  /\ collected = {}
  /\ mpc = "begin"
  /\ handler = "try"
  /\ pending = "none"
  /\ cancelled = FALSE
  /\ reports = 0
  /\ file = write_header(args.output, Iso(0))
  /\ fileOpen = HasHandler
  /\ first_entry = TRUE
  /\ clock = 1
  /\ written = <<>>

\* --------------------------------------------------------- worker threads
\* a pool that starts a thread per work item
UnboundedPool == TRUE

\* a pool thread takes the oldest queued work item; at most max_workers run
PoolHasIdleWorker == Cardinality(Executing) < args.threads

Start(t) ==
  /\ futures[t].pc = "queued"
  /\ \A u \in Tasks : u < t => futures[u].pc # "queued"
  /\ PoolHasIdleWorker
  /\ futures' = [futures EXCEPT ![t].pc = "probe"]
  /\ UNCHANGED << args, net, subdomains, checked_count, found_subdomains, lock,
                  collected, mpc, handler, pending, cancelled, reports,
                  file, fileOpen, first_entry, clock, written >>

\* lines 102-113: the method loop
Probe(t) ==
  /\ futures[t].pc = "probe"
  /\ LET r == MethodLoop(subdomains[t], args.methods, <<>>)
     IN futures' = [futures EXCEPT ![t].pc = "acquire",
                                   ![t].result = r.result,
                                   ![t].calls = r.calls,
                                   ![t].requests = r.requests]
  /\ UNCHANGED << args, net, subdomains, checked_count, found_subdomains, lock,
                  collected, mpc, handler, pending, cancelled, reports,
                  file, fileOpen, first_entry, clock, written >>

\* a region entered without waiting for the lock
NoLock == TRUE

LockFree == lock = 0

\* line 115: with self.lock
Acquire(t) ==
  /\ futures[t].pc = "acquire"
  /\ LockFree
  /\ lock' = t
  /\ futures' = [futures EXCEPT ![t].pc = "load"]
  /\ UNCHANGED << args, net, subdomains, checked_count, found_subdomains,
                  collected, mpc, handler, pending, cancelled, reports,
                  file, fileOpen, first_entry, clock, written >>

\* line 116: self.checked_count += 1 reads the attribute ...
Load(t) ==
  /\ futures[t].pc = "load"
  /\ futures' = [futures EXCEPT ![t].pc = "store", ![t].tmp = checked_count]
  /\ UNCHANGED << args, net, subdomains, checked_count, found_subdomains, lock,
                  collected, mpc, handler, pending, cancelled, reports,
                  file, fileOpen, first_entry, clock, written >>

\* the counter advanced only for a candidate that was found
StoreFoundOnly(t) ==
  /\ futures[t].pc = "store"
  /\ checked_count' = IF futures[t].result # None THEN futures[t].tmp + 1 ELSE checked_count
  /\ futures' = [futures EXCEPT ![t].pc = "branch"]
  /\ UNCHANGED << args, net, subdomains, found_subdomains, lock,
                  collected, mpc, handler, pending, cancelled, reports,
                  file, fileOpen, first_entry, clock, written >>

StoreUnchanged(t) ==
  /\ futures[t].pc = "store"
  /\ checked_count' = futures[t].tmp
  /\ futures' = [futures EXCEPT ![t].pc = "branch"]
  /\ UNCHANGED << args, net, subdomains, found_subdomains, lock,
                  collected, mpc, handler, pending, cancelled, reports,
                  file, fileOpen, first_entry, clock, written >>

\* ... and stores the sum
Store(t) ==
  /\ futures[t].pc = "store"
  /\ checked_count' = futures[t].tmp + 1
  /\ futures' = [futures EXCEPT ![t].pc = "branch"]
  /\ UNCHANGED << args, net, subdomains, found_subdomains, lock,
                  collected, mpc, handler, pending, cancelled, reports,
                  file, fileOpen, first_entry, clock, written >>

\* line 130: a progress line every 100th check
ProgressEvery == 100

\* the found branch falls through to the progress check
NotificationsNoReturn(count, result) ==
  (IF result # None THEN << "found" >> ELSE << >>)
    \o (IF count % ProgressEvery = 0 THEN << "progress" >> ELSE << >>)

\* lines 117-134, the lines the call prints inside the with block: the found
\* branch prints at 121 and returns at 127; only a miss reaches the test of
\* the counter at 130 and the print at 132
Notifications(count, result) ==
  IF result # None
    THEN << "found" >>
    ELSE IF count % ProgressEvery = 0 THEN << "progress" >> ELSE << >>

AddFoundOverwrite(found, result) == IF result # None THEN { result[1] } ELSE found

AddFound(found, result) == IF result # None THEN found \cup { result[1] } ELSE found

\* the lock is dropped before the handlers are written
FoundThenUnlock(t) ==
  /\ futures[t].pc = "branch"
  /\ futures[t].result # None
  /\ found_subdomains' = AddFound(found_subdomains, futures[t].result)
  /\ futures' = [futures EXCEPT
                   ![t].pc = IF HasHandler THEN "write" ELSE "done",
                   ![t].notes = Notifications(checked_count, futures[t].result)]
  /\ lock' = 0
  /\ UNCHANGED << args, net, subdomains, checked_count,
                  collected, mpc, handler, pending, cancelled, reports,
                  file, fileOpen, first_entry, clock, written >>

\* lines 117-121: a result is added to the set and announced, then the
\* handlers are written; with no handler the task returns at line 127
Found(t) ==
  /\ futures[t].pc = "branch"
  /\ futures[t].result # None
  /\ found_subdomains' = AddFound(found_subdomains, futures[t].result)
  /\ LET notes == Notifications(checked_count, futures[t].result)
     IN IF HasHandler
          THEN /\ futures' = [futures EXCEPT ![t].pc = "write", ![t].notes = notes]
               /\ UNCHANGED lock
          ELSE /\ futures' = [futures EXCEPT ![t].pc = "done", ![t].notes = notes]
               /\ lock' = 0
  /\ UNCHANGED << args, net, subdomains, checked_count,
                  collected, mpc, handler, pending, cancelled, reports,
                  file, fileOpen, first_entry, clock, written >>

\* the task returns None with the lock still held
MissHoldingLock(t) ==
  /\ futures[t].pc = "branch"
  /\ futures[t].result = None
  /\ futures' = [futures EXCEPT ![t].pc = "done",
                                ![t].notes = Notifications(checked_count, futures[t].result)]
  /\ UNCHANGED << args, net, subdomains, checked_count, found_subdomains, lock,
                  collected, mpc, handler, pending, cancelled, reports,
                  file, fileOpen, first_entry, clock, written >>

\* lines 129-134: no result; the with block releases the lock on return
Miss(t) ==
  /\ futures[t].pc = "branch"
  /\ futures[t].result = None
  /\ futures' = [futures EXCEPT ![t].pc = "done",
                                ![t].notes = Notifications(checked_count, futures[t].result)]
  /\ lock' = 0
  /\ UNCHANGED << args, net, subdomains, checked_count, found_subdomains,
                  collected, mpc, handler, pending, cancelled, reports,
                  file, fileOpen, first_entry, clock, written >>

\* lines 124-127: handler.write succeeds, the task returns the domain
Write(t) ==
  /\ futures[t].pc = "write"
  /\ fileOpen
  /\ LET r == futures[t].result
     IN file' = file \o HandlerWrite(args.output, first_entry, r[1], r[2], r[3], Iso(clock))
  /\ written' = Append(written, Append(futures[t].result, Iso(clock)))
  /\ first_entry' = FALSE
  /\ clock' = clock + 1
  /\ futures' = [futures EXCEPT ![t].pc = "done", ![t].wrote = Len(written')]
  /\ lock' = 0
  /\ UNCHANGED << args, net, subdomains, checked_count, found_subdomains,
                  collected, mpc, handler, pending, cancelled, reports,
                  fileOpen >>

\* the exception leaves the task with the lock still held
WriteRaisesHoldingLock(t) ==
  /\ futures[t].pc = "write"
  /\ futures' = [futures EXCEPT ![t].pc = "done", ![t].exc = IF fileOpen THEN "OSError" ELSE "ValueError"]
  /\ UNCHANGED << args, net, subdomains, checked_count, found_subdomains, lock,
                  collected, mpc, handler, pending, cancelled, reports,
                  file, fileOpen, first_entry, clock, written >>

\* line 125 raises: ValueError on a closed file, or an OSError of the
\* device; the exception leaves the with block (releasing the lock) and is
\* stored in the future
WriteRaises(t) ==
  /\ futures[t].pc = "write"
  /\ futures' = [futures EXCEPT ![t].pc = "done", ![t].exc = IF fileOpen THEN "OSError" ELSE "ValueError"]
  /\ lock' = 0
  /\ UNCHANGED << args, net, subdomains, checked_count, found_subdomains,
                  collected, mpc, handler, pending, cancelled, reports,
                  file, fileOpen, first_entry, clock, written >>

\* ---------------------------------------------------------------- main thread
AllDone == \A t \in Tasks : futures[t].pc = "done"

\* an exception raised at the main thread's position inside main's try
\* statement: the matching except clause runs generate_report; raised
\* inside an except clause it leaves main
RaiseInMain(e) ==
  IF handler = "try"
    THEN /\ handler' = (IF e = "KeyboardInterrupt" THEN "ki" ELSE "exc")
         /\ mpc' = "report"
    ELSE /\ handler' = handler
         /\ mpc' = "crashed"

\* lines 294-299 up to the creation of the executor: scan_with_wordlist
\* loads the file and returns on an empty list; ThreadPoolExecutor raises
\* ValueError when max_workers <= 0
Begin ==
  /\ mpc = "begin"
  /\ \E loaded \in ListsOf(load_subdomains_from_file(args.file)) :
       subdomains' = IF args.wordlist THEN loaded ELSE common_subdomains
  /\ IF subdomains' = <<>>
       THEN mpc' = "report" /\ UNCHANGED handler
       ELSE IF args.threads <= 0
              THEN RaiseInMain("ValueError")
              ELSE mpc' = "submit" /\ UNCHANGED handler
  /\ UNCHANGED << args, net, checked_count, found_subdomains, lock, futures,
                  collected, pending, cancelled, reports, file,
                  fileOpen, first_entry, clock, written >>

\* lines 146-149: executor.submit for the next candidate
Submit ==
  /\ mpc = "submit"
  /\ Len(futures) < Len(subdomains)
  /\ futures' = Append(futures, NewFuture)
  /\ mpc' = IF Len(futures') = Len(subdomains) THEN "wait" ELSE "submit"
  /\ UNCHANGED << args, net, subdomains, checked_count, found_subdomains, lock,
                  collected, handler, pending, cancelled, reports, file, fileOpen, first_entry, clock, written >>

\* "except Exception" catches what a task can raise
CaughtAtDispatch(e) == e \in {"ValueError", "OSError"}

\* lines 151-155: as_completed yields a finished future, future.result()
\* re-raises the task's exception inside try/except
Collect(t) ==
  /\ mpc = "wait"
  /\ futures[t].pc = "done"
  /\ t \notin collected
  /\ collected' = collected \cup {t}
  /\ IF futures[t].exc # "" /\ ~CaughtAtDispatch(futures[t].exc)
       THEN pending' = futures[t].exc /\ mpc' = "shutdown"
       ELSE /\ pending' = pending
            /\ mpc' = IF collected' = Tasks THEN "shutdown" ELSE "wait"
  /\ UNCHANGED << args, net, subdomains, checked_count, found_subdomains, lock,
                  futures, handler, cancelled, reports, file,
                  fileOpen, first_entry, clock, written >>

\* ThreadPoolExecutor.__exit__: shutdown(wait=True) joins the pool threads,
\* which run every queued work item before they exit
ShutdownJoined == AllDone

Shutdown ==
  /\ mpc = "shutdown"
  /\ ShutdownJoined
  /\ IF pending = "none"
       THEN mpc' = "report" /\ UNCHANGED handler
       ELSE RaiseInMain(pending)
  /\ pending' = "none"
  /\ UNCHANGED << args, net, subdomains, checked_count, found_subdomains, lock,
                  futures, collected, cancelled, reports, file,
                  fileOpen, first_entry, clock, written >>

\* Ctrl-C: KeyboardInterrupt is raised in the main thread wherever it is.
\* Inside the with block it propagates to __exit__ (the join); during the
\* join it leaves __exit__ without waiting for the pool
Interrupt ==
  /\ mpc \notin {"done", "crashed"}
  /\ cancelled' = TRUE
  /\ IF mpc \in {"submit", "wait"}
       THEN /\ pending' = "KeyboardInterrupt"
            /\ mpc' = "shutdown"
            /\ UNCHANGED handler
       ELSE /\ pending' = "none"
            /\ RaiseInMain("KeyboardInterrupt")
  /\ UNCHANGED << args, net, subdomains, checked_count, found_subdomains, lock,
                  futures, collected, reports, file, fileOpen,
                  first_entry, clock, written >>

\* lines 189-198: generate_report prints the counters
Summary ==
  /\ mpc = "report"
  /\ reports' = reports + 1
  /\ mpc' = "close"
  /\ UNCHANGED << args, net, subdomains, checked_count, found_subdomains, lock,
                  futures, collected, handler, pending, cancelled, file,
                  fileOpen, first_entry, clock, written >>

\* lines 201-202: handler.close(); JSONOutput.close writes "]}" first,
\* which raises ValueError on a closed file
CloseHandlers ==
  /\ mpc = "close"
  /\ IF ~HasHandler
       THEN mpc' = "done" /\ UNCHANGED << handler, file, fileOpen >>
       ELSE IF args.output = "json" /\ ~fileOpen
              THEN RaiseInMain("ValueError") /\ UNCHANGED << file, fileOpen >>
              ELSE /\ file' = IF args.output = "json" THEN file \o JSONClose ELSE file
                   /\ fileOpen' = FALSE
                   /\ mpc' = "done"
                   /\ UNCHANGED handler
  /\ UNCHANGED << args, net, subdomains, checked_count, found_subdomains, lock,
                  futures, collected, pending, cancelled, reports, first_entry, clock, written >>

Worker ==
  \E t \in Tasks :
    \/ Start(t)
    \/ Probe(t)
    \/ Acquire(t)
    \/ Load(t)
    \/ Store(t)
    \/ Found(t)
    \/ Miss(t)
    \/ Write(t)
    \/ WriteRaises(t)

Next ==
  \/ Begin
  \/ Submit
  \/ \E t \in Tasks : Collect(t)
  \/ Shutdown
  \/ Interrupt
  \/ Summary
  \/ CloseHandlers
  \/ Worker

Spec == Init /\ [][Next]_vars

\* ------------------------------------------------- JSONOutput on its own
\* a JSONOutput driven by any sequence of write calls and one close
Domains == { FullDomain(l) : l \in Labels }

Addresses == {"192.0.2.1", "192.0.2.2"}

IpLists == UNION { [1..n -> Addresses] : n \in 0..MaxIps }

MethodNames == {"DNS", "HTTP"}

InitJSON ==
  /\ args = [wordlist |-> FALSE, file |-> Missing, threads |-> 1,
             methods |-> <<"dns">>, output |-> "json"]
  /\ net = [dns |-> {}, https |-> [l \in Labels |-> Raises],
            http |-> [l \in Labels |-> Raises]]
  /\ subdomains = <<>>
  /\ checked_count = 0
  /\ found_subdomains = {}
  /\ lock = 0
  /\ futures = <<>>
  /\ collected = {}
  /\ mpc = "begin"
  /\ handler = "try"
  /\ pending = "none"
  /\ cancelled = FALSE
  /\ reports = 0
  /\ file = write_header("json", Iso(0))
  /\ fileOpen = TRUE
  /\ first_entry = TRUE
  /\ clock = 1
  /\ written = <<>>

\* JSONOutput.write(domain, ips, method)
JSONOutputWrite(domain, ips, method) ==
  /\ fileOpen
  /\ Len(written) < MaxRecords
  /\ file' = file \o JSONWrite(first_entry, domain, ips, method, Iso(clock))
  /\ written' = Append(written, << domain, ips, method, Iso(clock) >>)
  /\ first_entry' = FALSE
  /\ clock' = clock + 1
  /\ UNCHANGED << args, net, subdomains, checked_count, found_subdomains, lock,
                  futures, collected, mpc, handler, pending, cancelled, reports,
                  fileOpen >>

\* JSONOutput.close()
JSONOutputClose ==
  /\ fileOpen
  /\ file' = file \o JSONClose
  /\ fileOpen' = FALSE
  /\ UNCHANGED << args, net, subdomains, checked_count, found_subdomains, lock,
                  futures, collected, mpc, handler, pending, cancelled, reports,
                  first_entry, clock, written >>

NextJSON ==
  \/ \E domain \in Domains, ips \in IpLists, method \in MethodNames :
       JSONOutputWrite(domain, ips, method)
  \/ JSONOutputClose

SpecJSON == InitJSON /\ [][NextJSON]_vars

\* ------------------------------------------------------------ a JSON reader
\* parsed values: a string, an array of values, an object of members
JStr(s) == [k |-> "str", s |-> s, items |-> <<>>]
JArr(items) == [k |-> "arr", s |-> "", items |-> items]
JObj(members) == [k |-> "obj", s |-> "", items |-> members]
Member(key, val) == [k |-> "member", s |-> key, items |-> << val >>]
Bad == [ok |-> FALSE, val |-> JStr(""), next |-> 0]
Good(val, next) == [ok |-> TRUE, val |-> val, next |-> next]

TokIs(toks, i, t) == i <= Len(toks) /\ toks[i].t = t

RECURSIVE ParseValue(_, _)
RECURSIVE ParseElements(_, _, _)
RECURSIVE ParseMembers(_, _, _)

\* elements after "[" or after a ",": value then "," or "]"
ParseElements(toks, i, acc) ==
  LET e == ParseValue(toks, i)
  IN IF ~e.ok THEN Bad
     ELSE IF TokIs(toks, e.next, "]") THEN Good(JArr(Append(acc, e.val)), e.next + 1)
     ELSE IF TokIs(toks, e.next, ",") THEN ParseElements(toks, e.next + 1, Append(acc, e.val))
     ELSE Bad

\* members after "{" or after a ",": string ":" value then "," or "}"
ParseMembers(toks, i, acc) ==
  IF ~(TokIs(toks, i, "str") /\ TokIs(toks, i + 1, ":")) THEN Bad
  ELSE LET e == ParseValue(toks, i + 2)
           m == Append(acc, Member(toks[i].v, e.val))
       IN IF ~e.ok THEN Bad
          ELSE IF TokIs(toks, e.next, "}") THEN Good(JObj(m), e.next + 1)
          ELSE IF TokIs(toks, e.next, ",") THEN ParseMembers(toks, e.next + 1, m)
          ELSE Bad

ParseValue(toks, i) ==
  IF TokIs(toks, i, "str") THEN Good(JStr(toks[i].v), i + 1)
  ELSE IF TokIs(toks, i, "[")
    THEN IF TokIs(toks, i + 1, "]") THEN Good(JArr(<<>>), i + 2)
         ELSE ParseElements(toks, i + 1, <<>>)
  ELSE IF TokIs(toks, i, "{")
    THEN IF TokIs(toks, i + 1, "}") THEN Good(JObj(<<>>), i + 2)
         ELSE ParseMembers(toks, i + 1, <<>>)
  ELSE Bad

\* json.loads: one value and nothing after it
Loads(toks) ==
  LET r == ParseValue(toks, 1)
  IN IF r.ok /\ r.next = Len(toks) + 1 THEN r ELSE Bad

Keys(obj) == [i \in 1..Len(obj.items) |-> obj.items[i].s]

\* obj[key] for an object that has the key once
Get(obj, key) ==
  LET i == CHOOSE j \in 1..Len(obj.items) : obj.items[j].s = key
  IN obj.items[i].items[1]

Strings(arr) == [i \in 1..Len(arr.items) |-> arr.items[i].s]

\* the (domain, ips, method, discovery_time) read back from a parsed entry
EntryRecord(e) ==
  << Get(e, "domain").s, Strings(Get(e, "ips")), Get(e, "method").s,
     Get(e, "discovery_time").s >>

IsEntry(e) ==
  /\ e.k = "obj"
  /\ Keys(e) = << "domain", "ips", "method", "discovery_time" >>
  /\ Get(e, "domain").k = "str"
  /\ Get(e, "ips").k = "arr"
  /\ \A i \in 1..Len(Get(e, "ips").items) : Get(e, "ips").items[i].k = "str"
  /\ Get(e, "method").k = "str"
  /\ Get(e, "discovery_time").k = "str"

\* the document has the shape {"scan_info": {"start_time": s, "subdomains": [entries]}}
IsReport(doc) ==
  /\ doc.k = "obj"
  /\ Keys(doc) = << "scan_info" >>
  /\ Get(doc, "scan_info").k = "obj"
  /\ Keys(Get(doc, "scan_info")) = << "start_time", "subdomains" >>
  /\ Get(Get(doc, "scan_info"), "start_time").k = "str"
  /\ Get(Get(doc, "scan_info"), "subdomains").k = "arr"
  /\ \A i \in 1..Len(Get(Get(doc, "scan_info"), "subdomains").items) :
       IsEntry(Get(Get(doc, "scan_info"), "subdomains").items[i])

ReportEntries(doc) ==
  LET es == Get(Get(doc, "scan_info"), "subdomains").items
  IN [i \in 1..Len(es) |-> EntryRecord(es[i])]

\* ================================================================ properties
\* scan_with_wordlist / common_scan returned normally and no Ctrl-C came
ScanCompleted ==
  /\ mpc \in {"report", "close", "done"}
  /\ handler = "try"
  /\ ~cancelled

Done(t) == futures[t].pc = "done"

\* the outcome of a method for a label, read from the network alone
Succeeds(method, subdomain) ==
  \/ method = "dns" /\ subdomain \in net.dns
  \/ /\ method = "http"
     /\ \/ ~net.https[subdomain].exc /\ net.https[subdomain].status_code < 400
        \/ ~net.http[subdomain].exc /\ net.http[subdomain].status_code < 400

Region == {"load", "store", "branch", "write"}

InRegion == { t \in Tasks : futures[t].pc \in Region }

Passed == { t \in Tasks : Done(t) }

\* C1: after a completed, non-cancelled run of scan_with_wordlist or
\* common_scan, checked_count equals the number of candidates dispatched,
\* whatever was found or missed
C1_CheckedCountIsCandidates ==
  ScanCompleted =>
    /\ checked_count = Len(subdomains)
    /\ Len(futures) = Len(subdomains)

C1_Witness ==
  /\ ScanCompleted
  /\ Len(subdomains) >= 2
  /\ \E t \in Tasks : futures[t].result = None
  /\ \E t \in Tasks : futures[t].result # None
  /\ checked_count = Len(subdomains)

\* C2: at most one worker is inside the locked region of check_subdomain,
\* and whenever the lock is free checked_count is the number of workers
\* that passed through the region and found_subdomains is exactly the set
\* of domains of the records they produced
C2_Linearizable ==
  /\ Cardinality(InRegion) <= 1
  /\ lock = 0 =>
       /\ InRegion = {}
       /\ checked_count = Cardinality(Passed)
       /\ found_subdomains = { futures[t].result[1] : t \in { u \in Passed : futures[u].result # None } }

C2_Witness ==
  /\ lock = 0
  /\ checked_count = 2
  /\ Cardinality(found_subdomains) = 2
  /\ \E t \in Tasks : futures[t].pc = "acquire"

\* C3: in a completed run no sink receives two write calls for the same
\* domain
C3_NoDuplicateSinkWrites ==
  ScanCompleted =>
    \A i, j \in 1..Len(written) : written[i][1] = written[j][1] => i = j

\* C4: found_subdomains only holds targets label.domain of candidates for
\* which some method of the chain returned a record; a candidate every
\* method missed is never in it
C4_FoundOnlyResolved ==
  \A d \in found_subdomains :
    \E i \in 1..Len(subdomains) :
      /\ d = FullDomain(subdomains[i])
      /\ \E m \in Elems(args.methods) : Succeeds(m, subdomains[i])

C4_Witness ==
  /\ found_subdomains # {}
  /\ \E t \in Tasks :
       /\ Done(t)
       /\ futures[t].result = None
       /\ FullDomain(subdomains[t]) \notin found_subdomains

\* C5: after a KeyboardInterrupt was delivered, no probe task that had not
\* started executing is started
C5_NoStartAfterCancel ==
  [][cancelled =>
       \A t \in Tasks : futures[t].pc = "queued" => futures'[t].pc = "queued"]_vars

\* C6: no handler.write call on a sink occurs after that sink's close(),
\* and the sink is open, header written, before the first dispatch
C6_NoWriteAfterClose ==
  [][/\ \A t \in Tasks :
          (futures[t].pc = "write" /\ futures'[t].pc = "done") => fileOpen
     /\ (HasHandler /\ futures = <<>>) =>
          (fileOpen /\ file = write_header(args.output, Iso(0)))]_vars

\* C7: n >= 0 JSONOutput.write calls followed by close() leave a well-formed
\* JSON document {"scan_info": {"start_time": ..., "subdomains": [...]}}
\* whose entries parse back, in order, to the domain, ips, method and
\* discovery_time of the written records
C7_JSONRoundTrip ==
  ~fileOpen =>
    /\ Loads(file).ok
    /\ IsReport(Loads(file).val)
    /\ ReportEntries(Loads(file).val) = written

\* C8: methods are attempted strictly in the supplied order and none after
\* the first that returns a record; with [dns, http] a DNS success means
\* http_scan is not called, and a candidate has at most one record
C8_ShortCircuit ==
  \A t \in Tasks :
    futures[t].pc \notin {"queued", "probe"} =>
      LET c == futures[t].calls
          ms == args.methods
          n == Len(futures[t].calls)
      IN /\ n >= 1
         /\ n <= Len(ms)
         /\ \A i \in 1..n : c[i] = ms[i]
         /\ \A i \in 1..(n - 1) : ~Succeeds(c[i], subdomains[t])
         /\ n < Len(ms) => Succeeds(c[n], subdomains[t])
         /\ (futures[t].result # None) <=> Succeeds(c[n], subdomains[t])
         /\ futures[t].result # None =>
              futures[t].result[3] = (IF c[n] = "dns" THEN "DNS" ELSE "HTTP")

C8_Witness ==
  \E t \in Tasks :
    /\ args.methods = << "dns", "http" >>
    /\ futures[t].calls = << "dns" >>
    /\ futures[t].result # None
    /\ net.https[subdomains[t]] = Response(200)
    /\ Done(t)

\* C9: one probe task is dispatched per candidate, and the number of probe
\* tasks executing at once never exceeds the configured thread count
C9_BoundedPool ==
  /\ Cardinality(Executing) <= args.threads
  /\ Len(futures) <= Len(subdomains)
  /\ mpc = "wait" => Len(futures) = Len(subdomains)

C9_Witness ==
  /\ args.threads = 2
  /\ Cardinality(Executing) = 2
  /\ \E t \in Tasks : futures[t].pc = "queued"

\* C10: a task whose handler.write raised is counted like a not-found: its
\* domain is not left in found_subdomains
C10_FailureCountedAsMiss ==
  \A t \in Tasks :
    (Done(t) /\ futures[t].exc # "") =>
      futures[t].result[1] \notin found_subdomains

\* C11: on every exit path of main (normal, Ctrl-C, error, whenever the
\* interrupt or error arrives) generate_report is invoked exactly once and
\* the sink's close() is executed exactly once
C11_ReportAndCloseOnce ==
  mpc \in {"done", "crashed"} =>
    /\ reports = 1
    /\ HasHandler => ~fileOpen

\* C12: in every reachable state, cancellation included, checked_count is at
\* most the number of candidates dispatched so far and |found| <=
\* checked_count; after a cancellation the summary therefore never counts
\* more checks than were dispatched, and the sink is finalized when main
\* ends through its cancellation clause
C12_CountWithinDispatched ==
  /\ checked_count <= Len(futures)
  /\ Cardinality(found_subdomains) <= checked_count
  /\ (mpc = "done" /\ cancelled /\ HasHandler) => ~fileOpen

C12_Witness ==
  /\ cancelled
  /\ mpc = "done"
  /\ HasHandler
  /\ ~fileOpen
  /\ checked_count >= 1
  /\ checked_count < Len(subdomains)

\* the found set the inputs determine: the candidates for which some method
\* of the chain succeeds
ExpectedFound ==
  { FullDomain(subdomains[i]) :
      i \in { j \in 1..Len(subdomains) :
                \E m \in Elems(args.methods) : Succeeds(m, subdomains[j]) } }

\* C13: with every method's outcome for every target fixed, a completed run
\* ends with a found set that the candidates, the methods and the outcomes
\* alone determine, whatever the thread count and the interleaving of the
\* tasks: two such runs end with the same found set
C13_FoundDetermined ==
  ScanCompleted => found_subdomains = ExpectedFound

C13_Witness ==
  /\ ScanCompleted
  /\ args.threads = 2
  /\ Cardinality(found_subdomains) = 2
  /\ \E t, u \in Tasks : t < u /\ futures[u].tmp < futures[t].tmp

\* ------------------------------------------- a long run on one worker thread
\* wordlists of MaxChecked labels
LongLists ==
  { [i \in 1..MaxChecked |-> IF i % 3 = r THEN "www" ELSE "shop"] : r \in 0..2 }

\* the state after scan_with_wordlist submitted a long wordlist to a pool of
\* one thread
InitProgress ==
  /\ args = [wordlist |-> TRUE, file |-> Missing, threads |-> 1,
             methods |-> <<"dns">>, output |-> ""]
  /\ net \in Networks(args.methods)
  /\ subdomains \in LongLists
  /\ checked_count = 0
  /\ found_subdomains = {}
  /\ lock = 0
  /\ futures = [i \in 1..MaxChecked |-> NewFuture]
  /\ collected = {}
  /\ mpc = "wait"
  /\ handler = "try"
  /\ pending = "none"
  /\ cancelled = FALSE
  /\ reports = 0
  /\ file = write_header(args.output, Iso(0))
  /\ fileOpen = HasHandler
  /\ first_entry = TRUE
  /\ clock = 1
  /\ written = <<>>

\* lines 100-134: the pool's only thread takes the next work item and runs
\* check_subdomain from its first line to its return (no handler is open)
check_subdomain(t) ==
  /\ futures[t].pc = "queued"
  /\ \A u \in Tasks : u < t => futures[u].pc # "queued"
  /\ PoolHasIdleWorker
  /\ LockFree
  /\ ~HasHandler
  /\ LET r == MethodLoop(subdomains[t], args.methods, <<>>)
     IN /\ checked_count' = checked_count + 1
        /\ found_subdomains' = AddFound(found_subdomains, r.result)
        /\ futures' = [futures EXCEPT
                         ![t] = [pc |-> "done", result |-> r.result, calls |-> r.calls,
                                 tmp |-> checked_count, exc |-> "",
                                 notes |-> Notifications(checked_count', r.result),
                                 wrote |-> 0, requests |-> r.requests]]
  /\ UNCHANGED << args, net, subdomains, lock, collected, mpc, handler, pending,
                  cancelled, reports, file, fileOpen, first_entry, clock, written >>

NextProgress == \E t \in Tasks : check_subdomain(t)

SpecProgress == InitProgress /\ [][NextProgress]_vars

\* the value of checked_count right after the increment of task t
CountAfter(t) == futures[t].tmp + 1

\* C14: a completed check emits exactly one found notification and no
\* progress notification when it produced a record; otherwise it emits one
\* progress notification if and only if the just-incremented checked_count
\* is a multiple of 100, and nothing else; never both kinds
C14_OneNotificationKind ==
  \A t \in Tasks :
    Done(t) =>
      /\ Len(futures[t].notes) <= 1
      /\ futures[t].result # None => futures[t].notes = << "found" >>
      /\ futures[t].result = None =>
           /\ (CountAfter(t) % 100 = 0) => futures[t].notes = << "progress" >>
           /\ (CountAfter(t) % 100 # 0) => futures[t].notes = << >>

C14_Witness ==
  LET t == ProgressEvery
      u == 2 * ProgressEvery
  IN /\ u \in Tasks
     /\ Done(t) /\ Done(u)
     /\ CountAfter(t) % 100 = 0
     /\ CountAfter(u) % 100 = 0
     /\ futures[t].result = None /\ futures[t].notes = << "progress" >>
     /\ futures[u].result # None /\ futures[u].notes = << "found" >>

\* --------------------------------------------- runs over every wordlist file
\* main started with -w on a file of any lines (or a missing file), a JSON
\* sink, the DNS method and at most one thread
InitLoad ==
  /\ args \in [wordlist : {TRUE}, file : WordFiles \cup {Missing}, threads : 0..1,
               methods : { <<"dns">> }, output : {"json"}]
  /\ net \in Networks(args.methods)
  /\ subdomains = <<>>
  /\ checked_count = 0
  /\ found_subdomains = {}
  /\ lock = 0
  /\ futures = <<>>
  /\ collected = {}
  /\ mpc = "begin"
  /\ handler = "try"
  /\ pending = "none"
  /\ cancelled = FALSE
  /\ reports = 0
  /\ file = write_header(args.output, Iso(0))
  /\ fileOpen = HasHandler
  /\ first_entry = TRUE
  /\ clock = 1
  /\ written = <<>>

SpecLoad == InitLoad /\ [][Next]_vars

\* the wordlist file does not exist or none of its lines is a label
NoLabels ==
  \/ args.file = Missing
  \/ \A i \in 1..Len(args.file) : args.file[i] \in {"", "#c"}

\* C15: when the wordlist is missing or yields no label, the loaded list is
\* empty, no task is dispatched, checked_count stays 0 and found stays
\* empty; the run does not abort (it stays in main's try block, whatever the
\* thread count), the summary is produced once and the sink is closed
C15_EmptyWordlist ==
  (args.wordlist /\ NoLabels /\ mpc # "begin") =>
    /\ subdomains = <<>>
    /\ futures = <<>>
    /\ checked_count = 0
    /\ found_subdomains = {}
    /\ ~cancelled =>
         /\ handler = "try"
         /\ mpc \in {"report", "close", "done"}
         /\ mpc = "done" => (reports = 1 /\ ~fileOpen)

C15_Witness ==
  /\ args.wordlist
  /\ args.file = << "#c", "" >>
  /\ args.threads = 0
  /\ mpc = "done"
  /\ ~cancelled
  /\ reports = 1
  /\ ~fileOpen
  /\ checked_count = 0

\* ------------------------------------------------ runs over every sink kind
\* the built-in list scanned by DNS with a JSON, CSV or text sink
InitSinks ==
  /\ args \in [wordlist : {FALSE}, file : {Missing}, threads : 1..MaxThreads,
               methods : { <<"dns">> }, output : {"json", "csv", "text"}]
  /\ net \in Networks(args.methods)
  /\ subdomains = <<>>
  /\ checked_count = 0
  /\ found_subdomains = {}
  /\ lock = 0
  /\ futures = <<>>
  /\ collected = {}
  /\ mpc = "begin"
  /\ handler = "try"
  /\ pending = "none"
  /\ cancelled = FALSE
  /\ reports = 0
  /\ file = write_header(args.output, Iso(0))
  /\ fileOpen = HasHandler
  /\ first_entry = TRUE
  /\ clock = 1
  /\ written = <<>>

SpecSinks == InitSinks /\ [][Next]_vars

\* what the records "written" look like in a file of the sink's kind
RECURSIVE Records(_, _)
Records(recs, k) ==
  IF k > Len(recs) THEN <<>>
  ELSE HandlerWrite(args.output, k = 1, recs[k][1], recs[k][2], recs[k][3], recs[k][4])
         \o Records(recs, k + 1)

Wrote == { t \in Tasks : futures[t].wrote > 0 }

\* C16: within the sink the header comes before any record (a CSV file
\* starts with the column line), the records follow it in the order they
\* were written, nothing of it is ever rewritten, and that order is the
\* order in which the workers that produced them entered the locked region
C16_SinkOrder ==
  HasHandler =>
    LET body == write_header(args.output, Iso(0)) \o Records(written, 1)
    IN /\ Len(file) >= Len(body)
       /\ SubSeq(file, 1, Len(body)) = body
       /\ args.output = "csv" => file[1] = Line("domain,ips,method,discovery_time")
       /\ \A t \in Wrote :
            /\ futures[t].wrote <= Len(written)
            /\ written[futures[t].wrote][1] = FullDomain(subdomains[t])
       /\ \A t, u \in Wrote :
            futures[t].tmp < futures[u].tmp => futures[t].wrote < futures[u].wrote

C16_Witness ==
  /\ args.output = "csv"
  /\ Len(file) = 3
  /\ \E t, u \in Wrote : t < u /\ futures[u].wrote < futures[t].wrote

\* ------------------------------------------- runs over every HTTP response
\* what a request can end in: an exception (refused, timeout, TLS failure)
\* or a response with one of these status codes
Responses == { Raises, Response(200), Response(399), Response(400), Response(404) }

\* main started with --methods http on a wordlist of one label, a JSON sink
\* and one thread; only that label's responses vary
InitHTTP ==
  /\ args \in [wordlist : {TRUE}, file : { << "www" >>, << "shop" >> }, threads : {1},
               methods : { <<"http">> }, output : {"json"}]
  /\ net \in [dns : { {} }, https : [Labels -> Responses], http : [Labels -> Responses]]
  /\ \A l \in Labels :
       l # args.file[1] => (net.https[l] = Raises /\ net.http[l] = Raises)
  /\ subdomains = <<>>
  /\ checked_count = 0
  /\ found_subdomains = {}
  /\ lock = 0
  /\ futures = <<>>
  /\ collected = {}
  /\ mpc = "begin"
  /\ handler = "try"
  /\ pending = "none"
  /\ cancelled = FALSE
  /\ reports = 0
  /\ file = write_header(args.output, Iso(0))
  /\ fileOpen = HasHandler
  /\ first_entry = TRUE
  /\ clock = 1
  /\ written = <<>>

SpecHTTP == InitHTTP /\ [][Next]_vars

\* C19: http_scan requests https:// first and http:// second; it returns a
\* record with method HTTP for the first scheme whose status is below 400,
\* does not request http:// after https:// succeeded, takes an exception or
\* a status >= 400 on one scheme as a miss of that scheme only, and returns
\* not-found exactly when both schemes fail
C19_HttpSchemes ==
  \A t \in Tasks :
    (args.methods = << "http" >> /\ futures[t].pc \notin {"queued", "probe"}) =>
      LET l == subdomains[t]
          full == l \o ".example.com"
          secure == "https://" \o full
          plain == "http://" \o full
          okSecure == ~net.https[l].exc /\ net.https[l].status_code < 400
          okPlain == ~net.http[l].exc /\ net.http[l].status_code < 400
          rq == futures[t].requests
          r == futures[t].result
      IN /\ okSecure => (rq = << secure >> /\ r = << full, << secure >>, "HTTP" >>)
         /\ ~okSecure => rq = << secure, plain >>
         /\ (~okSecure /\ okPlain) => r = << full, << plain >>, "HTTP" >>
         /\ (r = None) <=> (~okSecure /\ ~okPlain)

C19_Witness ==
  \E t \in Tasks :
    /\ Done(t)
    /\ net.https[subdomains[t]] = Response(400)
    /\ net.http[subdomains[t]] = Response(399)
    /\ futures[t].requests = << "https://www.example.com", "http://www.example.com" >>
    /\ futures[t].result = << "www.example.com", << "http://www.example.com" >>, "HTTP" >>

\* C18: without a wordlist the candidates handed to the dispatcher are the
\* built-in list with duplicates removed, so no label is dispatched more
\* than once in a common_scan run
C18_BuiltinDeduplicated ==
  ~args.wordlist =>
    \A i, j \in 1..Len(futures) : subdomains[i] = subdomains[j] => i = j

\* C20: the lock is released on every exit from the locked region of
\* check_subdomain, the early return of a found record and an exception of
\* a sink write included: the lock is never held by a finished task, its
\* holder is always a task inside the region (which can take its next
\* step), and a finished task holds nothing
C20_LockReleased ==
  /\ lock # 0 => (lock \in Tasks /\ futures[lock].pc \in Region)
  /\ \A t \in Tasks : Done(t) => lock # t

C20_Witness ==
  \E t, u \in Tasks :
    /\ Done(t) /\ Done(u)
    /\ futures[t].exc # ""
    /\ futures[t].tmp < futures[u].tmp
    /\ futures[u].result # None
    /\ lock = 0

\* ------------------------------------------------------- runs under fairness
\* a common scan by DNS with a JSON sink
InitLive ==
  /\ args \in [wordlist : {FALSE}, file : {Missing}, threads : 0..MaxThreads,
               methods : { <<"dns">> }, output : {"json"}]
  /\ net \in Networks(args.methods)
  /\ subdomains = <<>>
  /\ checked_count = 0
  /\ found_subdomains = {}
  /\ lock = 0
  /\ futures = <<>>
  /\ collected = {}
  /\ mpc = "begin"
  /\ handler = "try"
  /\ pending = "none"
  /\ cancelled = FALSE
  /\ reports = 0
  /\ file = write_header(args.output, Iso(0))
  /\ fileOpen = HasHandler
  /\ first_entry = TRUE
  /\ clock = 1
  /\ written = <<>>

\* the steps of the main thread; Ctrl-C is the user's and is not among them
MainStep ==
  \/ Begin
  \/ Submit
  \/ \E t \in Tasks : Collect(t)
  \/ Shutdown
  \/ Summary
  \/ CloseHandlers

\* every network call returns (Probe is a step that is always enabled), the
\* pool threads and the main thread are scheduled fairly, and the user may
\* press Ctrl-C at any time or never
SpecLive == InitLive /\ [][Next]_vars /\ WF_vars(Worker) /\ WF_vars(MainStep)

\* C17: every dispatched task eventually completes, so none waits for the
\* lock forever; the scan loop exits and main ends; and unless the user
\* cancels, the report is generated
C17_Termination ==
  /\ <>[](AllDone /\ mpc \in {"done", "crashed"})
  /\ <>(cancelled \/ (mpc = "done" /\ reports = 1))

C17_Witness ==
  /\ AllDone
  /\ Len(futures) = 3
  /\ args.threads = 2
  /\ mpc = "done"
  /\ reports = 1
  /\ ~cancelled

====
